---- MODULE Spec2Model ----
(***************************************************************************)
(* A model of feast_postgres.online_stores.postgres.PostgreSQLOnlineStore: *)
(* one adapter instance, its lazily opened psycopg2 connection and the     *)
(* PostgreSQL database behind it.  Every handler (online_write_batch,      *)
(* online_read, update, teardown) is one action that runs the whole        *)
(* handler, from _get_conn to the exit of its `with conn` block.  The      *)
(* caller takes the outcome of a call (Return) before it makes the next.   *)
(***************************************************************************)
EXTENDS Integers, Sequences, FiniteSets, TLC

VARIABLES
  config,     \* the deployment: [db_schema] of the RepoConfig the adapter is
              \* used with, [timezone] of the backend session (hours east of UTC)
  conn,       \* PostgreSQLOnlineStore._conn: "none" or "open"
  nconn,      \* how many times psycopg2.connect has succeeded
  db,         \* the committed database: [schemas, exists, indexes, rows]
  written,    \* history: per cell, the record the last successful write gave
  ncalls,     \* how many handler calls were made
  nrows,      \* the number of rows of the write that is explored by row count
  txn,        \* the transaction open on the connection: [open, db], db the
              \* database as its uncommitted statements have left it
  last        \* the call that has just ended, "idle" when the caller took it

vars == <<config, conn, nconn, db, written, ncalls, nrows, txn, last>>

----------------------------------------------------------------------------
(* Bounds of the exploration *)

MaxCalls == 3        \* handler calls per behaviour
MaxData == 2         \* records per online_write_batch call
MaxKeys == 3         \* entity keys per online_read call
ModelBatchSize == 2  \* the batch size the explored writes use in place of batch_size
MaxFullBatches == 12 \* full batches of a write explored by row count

(* postgres.py:79 *)
batch_size == 5000

Keys == {"k1", "k2"}
Features == {"f1", "f2"}
FeatureOrder == <<"f1", "f2">>
Values == {"v1", "v2"}
Tables == {"T1", "T2"}
project == "p"
user == "u"
(* The deployments explored: config.online_store.db_schema unset or set,
   the session's TimeZone UTC or two hours east of it. *)
Configs ==
  { [db_schema |-> "", timezone |-> 0], [db_schema |-> "feast", timezone |-> 2] }

Min(a, b) == IF a < b THEN a ELSE b

----------------------------------------------------------------------------
(* datetime values: None, naive, or aware with a UTC offset (hours) *)

NoneTs == [kind |-> "none", wall |-> 0, off |-> 0]
Naive(w) == [kind |-> "naive", wall |-> w, off |-> 0]
Aware(w, o) == [kind |-> "aware", wall |-> w, off |-> o]

(* datetime.__eq__: two aware datetimes are equal when they are the same
   instant, two naive ones when their wall clocks agree, and a naive one
   never equals an aware one. *)
DatetimeEq(a, b) ==
  IF a.kind = "aware" /\ b.kind = "aware" THEN a.wall - a.off = b.wall - b.off
  ELSE a.kind = b.kind /\ a.wall = b.wall

(* A mutant of _to_naive_utc: the zone marker is stripped without the
   conversion to UTC. *)
_to_naive_strip(ts) == Naive(ts.wall)

(* postgres.py:240-244 *)
_to_naive_utc(ts) ==
  IF ts.kind = "naive" THEN ts ELSE Naive(ts.wall - ts.off)

(* A TIMESTAMPTZ column value: NULL or an instant (hours, UTC). *)
SqlNull == [null |-> TRUE, instant |-> 0]

(* psycopg2 adapts a datetime parameter to a timestamp literal; assigned to a
   TIMESTAMPTZ column, a literal without zone is read in the session's
   TimeZone, one with a zone by its offset. *)
ToTimestamptz(ts, tz) ==
  CASE ts.kind = "none" -> SqlNull
    [] ts.kind = "naive" -> [null |-> FALSE, instant |-> ts.wall - tz]
    [] OTHER -> [null |-> FALSE, instant |-> ts.wall - ts.off]

(* psycopg2 returns a TIMESTAMPTZ value as an aware datetime in the session's
   TimeZone. *)
FromTimestamptz(st, tz) ==
  IF st.null THEN NoneTs ELSE Aware(st.instant + tz, tz)

----------------------------------------------------------------------------
(* The serialization the adapter consumes *)

serialize_entity_key(k) == [bytes |-> k]
SerializeToString(v) == [bytes |-> v]
ParseFromString(b) == b.bytes

_table_id(p, t) == <<p, t>>

PhysTables == {_table_id(project, t) : t \in Tables}

(* The schema the connection's search_path names (postgres.py:41-45). *)
SearchPath(cfg) == IF cfg.db_schema # "" THEN cfg.db_schema ELSE user

----------------------------------------------------------------------------
(* The database *)

EmptyDb ==
  [schemas |-> {}, exists |-> {}, indexes |-> {},
   rows |-> [t \in PhysTables |-> {}]]

(* An unqualified table name resolves when the search_path schema holds it. *)
TableVisible(d, cfg, tid) == SearchPath(cfg) \in d.schemas /\ tid \in d.exists

Ev(e, a, ok) == [ev |-> e, arg |-> a, ok |-> ok]

(* Leaving `with conn`: commit when the block ended normally, rollback when
   it raised.  The exit of a mutant that commits either way. *)
conn_exit_commit_always(pre, tx, failed) == tx

conn_exit(pre, tx, failed) == IF failed THEN pre ELSE tx

NoTxn == [open |-> FALSE, db |-> EmptyDb]

(* The database the statements of a call see: psycopg2 begins a transaction
   with the first statement when none is open on the connection, and goes on
   in the open one otherwise. *)
Begin(t, committed) == IF t.open THEN t.db ELSE committed

(* A mutant of txn_exit: a block that raised leaves its transaction open. *)
txn_exit_no_rollback(tx, failed) ==
  IF failed THEN [open |-> TRUE, db |-> tx] ELSE NoTxn

(* Leaving `with conn` ends the transaction either way. *)
txn_exit(tx, failed) == NoTxn

(* A mutant of _get_conn: every call opens a connection of its own. *)
_get_conn_per_call(c, connectOk) ==
  IF connectOk THEN [conn |-> "open", opened |-> 1, failed |-> FALSE]
  ELSE [conn |-> "none", opened |-> 0, failed |-> TRUE]

(* _get_conn: the connection is opened when there is none yet. *)
_get_conn(c, connectOk) ==
  IF c = "none"
  THEN IF connectOk THEN [conn |-> "open", opened |-> 1, failed |-> FALSE]
       ELSE [conn |-> "none", opened |-> 0, failed |-> TRUE]
  ELSE [conn |-> c, opened |-> 0, failed |-> FALSE]

----------------------------------------------------------------------------
(* online_write_batch *)

(* The records a call may carry: a key, a value map over some of the
   features, an event timestamp and an optional created timestamp. *)
Versions ==
  { [val |-> "v1", ts |-> Naive(10), created |-> NoneTs],
    [val |-> "v2", ts |-> Aware(13, 2), created |-> Aware(9, -1)] }

FeatureSets == { {}, {"f1"}, {"f1", "f2"} }

Records ==
  { [entity_key |-> k, values |-> [f \in fs |-> ver.val],
     timestamp |-> ver.ts, created_ts |-> ver.created] :
    k \in Keys, fs \in FeatureSets, ver \in Versions }

DataSeqs == UNION { [1..n -> Records] : n \in 0..MaxData }

(* values.items() in the dict's order *)
RECURSIVE Items(_, _)
Items(values, i) ==
  IF i > Len(FeatureOrder) THEN <<>>
  ELSE (IF FeatureOrder[i] \in DOMAIN values
        THEN << <<FeatureOrder[i], values[FeatureOrder[i]]>> >> ELSE <<>>)
       \o Items(values, i + 1)

(* postgres.py:63-77: the rows one record contributes *)
RecordRows(rec) ==
  LET entity_key_bin == serialize_entity_key(rec.entity_key)
      timestamp == _to_naive_utc(rec.timestamp)
      created_ts == IF rec.created_ts.kind # "none"
                    THEN _to_naive_utc(rec.created_ts) ELSE rec.created_ts
      items == Items(rec.values, 1)
  IN [j \in 1..Len(items) |->
        [entity_key |-> entity_key_bin, feature_name |-> items[j][1],
         value |-> SerializeToString(items[j][2]),
         event_ts |-> timestamp, created_ts |-> created_ts]]

(* postgres.py:61-77 *)
RECURSIVE insert_values(_)
insert_values(data) ==
  IF data = <<>> THEN <<>>
  ELSE RecordRows(Head(data)) \o insert_values(Tail(data))

(* A mutant of Range: the bound is taken inclusive. *)
RECURSIVE RangeInclusive(_, _, _)
RangeInclusive(i, n, bs) ==
  IF i > n THEN <<>> ELSE <<i>> \o RangeInclusive(i + bs, n, bs)

(* range(0, n, bs): the start offsets *)
RECURSIVE Range(_, _, _)
Range(i, n, bs) == IF i >= n THEN <<>> ELSE <<i>> \o Range(i + bs, n, bs)

(* seq[i : j] *)
Slice(seq, i, j) == SubSeq(seq, i + 1, Min(j, Len(seq)))

(* postgres.py:80-81: the batches of a row list *)
Batches(rowlist, bs) ==
  LET starts == Range(0, Len(rowlist), bs)
  IN [b \in 1..Len(starts) |-> Slice(rowlist, starts[b], starts[b] + bs)]

(* len(seq[i : j]) for a seq of n elements, 0 <= i <= n *)
SliceLen(n, i, j) == Min(j, n) - i

(* postgres.py:80-81, 100: len(cur_batch) of each batch of n rows *)
BatchLens(n, bs) ==
  LET starts == Range(0, n, bs)
  IN [b \in 1..Len(starts) |-> SliceLen(n, starts[b], starts[b] + bs)]

PK(r) == <<r.entity_key, r.feature_name>>

(* INSERT ... ON CONFLICT DO UPDATE refuses a statement that proposes the
   same primary key twice (cardinality_violation). *)
HasDuplicatePK(batch) ==
  \E i, j \in 1..Len(batch) : i < j /\ PK(batch[i]) = PK(batch[j])

StoredRow(r, tz) ==
  [entity_key |-> r.entity_key, feature_name |-> r.feature_name,
   value |-> r.value, event_ts |-> ToTimestamptz(r.event_ts, tz),
   created_ts |-> ToTimestamptz(r.created_ts, tz)]

(* A mutant of OnConflictUpdate: ON CONFLICT DO NOTHING *)
OnConflictNothing(stored, new) ==
  IF \E r \in stored : PK(r) = PK(new) THEN stored ELSE stored \cup {new}

(* A mutant of OnConflictUpdate: the new row replaces every row of its
   entity key. *)
OnConflictReplaceKey(stored, new) ==
  {r \in stored : r.entity_key # new.entity_key} \cup {new}

(* postgres.py:89-93: the new row replaces the one with its primary key *)
OnConflictUpdate(stored, new) ==
  {r \in stored : PK(r) # PK(new)} \cup {new}

RECURSIVE UpsertAll(_, _, _)
UpsertAll(stored, batch, tz) ==
  IF batch = <<>> THEN stored
  ELSE UpsertAll(OnConflictUpdate(stored, StoredRow(Head(batch), tz)),
                 Tail(batch), tz)

(* A mutant of execute_values: a missing table does not fail the statement. *)
execute_values_any_table(tx, cfg, tz, tid, batch, backendFails) ==
  IF backendFails \/ HasDuplicatePK(batch)
  THEN [db |-> tx, failed |-> TRUE]
  ELSE [db |-> [tx EXCEPT !.rows[tid] = UpsertAll(@, batch, tz)],
        failed |-> FALSE]

(* postgres.py:82-98: one execute_values statement. *)
execute_values(tx, cfg, tz, tid, batch, backendFails) ==
  IF backendFails \/ ~TableVisible(tx, cfg, tid) \/ HasDuplicatePK(batch)
  THEN [db |-> tx, failed |-> TRUE]
  ELSE [db |-> [tx EXCEPT !.rows[tid] = UpsertAll(@, batch, tz)],
        failed |-> FALSE]

(* A mutant of batch_loop: a failing batch is noted and the loop goes on. *)
RECURSIVE batch_loop_keep_going(_, _, _, _, _, _, _, _)
batch_loop_keep_going(tx, cfg, tz, tid, batches, b, progress, failAt) ==
  IF b > Len(batches) THEN [db |-> tx, log |-> <<>>, failed |-> FALSE]
  ELSE LET st == execute_values(tx, cfg, tz, tid, batches[b], failAt = b)
           rest == batch_loop_keep_going(st.db, cfg, tz, tid, batches, b + 1,
                                         progress, failAt)
       IN [db |-> rest.db,
           log |-> <<Ev("execute", b, ~st.failed)>>
                   \o (IF progress /\ ~st.failed
                       THEN <<Ev("progress", Len(batches[b]), TRUE)>>
                       ELSE <<>>)
                   \o rest.log,
           failed |-> st.failed \/ rest.failed]

(* A mutant of batch_loop: progress is reported when a batch is about to be
   sent, before its statement. *)
RECURSIVE batch_loop_progress_first(_, _, _, _, _, _, _, _)
batch_loop_progress_first(tx, cfg, tz, tid, batches, b, progress, failAt) ==
  IF b > Len(batches) THEN [db |-> tx, log |-> <<>>, failed |-> FALSE]
  ELSE LET st == execute_values(tx, cfg, tz, tid, batches[b], failAt = b)
           told == IF progress THEN <<Ev("progress", Len(batches[b]), TRUE)>>
                   ELSE <<>>
       IN IF st.failed
          THEN [db |-> tx, log |-> told \o <<Ev("execute", b, FALSE)>>,
                failed |-> TRUE]
          ELSE LET rest == batch_loop_progress_first(st.db, cfg, tz, tid, batches,
                                                     b + 1, progress, failAt)
               IN [db |-> rest.db,
                   log |-> told \o <<Ev("execute", b, TRUE)>> \o rest.log,
                   failed |-> rest.failed]

(* postgres.py:80-100: the batch loop; it ends at the first failing
   statement.  failAt names the statement the backend fails (0: none). *)
RECURSIVE batch_loop(_, _, _, _, _, _, _, _)
batch_loop(tx, cfg, tz, tid, batches, b, progress, failAt) ==
  IF b > Len(batches) THEN [db |-> tx, log |-> <<>>, failed |-> FALSE]
  ELSE LET st == execute_values(tx, cfg, tz, tid, batches[b], failAt = b)
       IN IF st.failed
          THEN [db |-> tx, log |-> <<Ev("execute", b, FALSE)>>, failed |-> TRUE]
          ELSE LET rest == batch_loop(st.db, cfg, tz, tid, batches, b + 1,
                                      progress, failAt)
               IN [db |-> rest.db,
                   log |-> <<Ev("execute", b, TRUE)>>
                           \o (IF progress
                               THEN <<Ev("progress", Len(batches[b]), TRUE)>>
                               ELSE <<>>)
                           \o rest.log,
                   failed |-> rest.failed]

(* History: the cells a record names, as the caller gave them. *)
RecordCells(tid, rec) ==
  { [table |-> tid, entity_key |-> rec.entity_key, feature_name |-> f,
     value |-> rec.values[f], timestamp |-> rec.timestamp,
     created_ts |-> rec.created_ts] : f \in DOMAIN rec.values }

SameCell(a, b) ==
  /\ a.table = b.table
  /\ a.entity_key = b.entity_key
  /\ a.feature_name = b.feature_name

RECURSIVE Remember(_, _, _)
Remember(hist, tid, data) ==
  IF data = <<>> THEN hist
  ELSE LET new == RecordCells(tid, Head(data))
       IN Remember({w \in hist : \A n \in new : ~SameCell(w, n)} \cup new,
                   tid, Tail(data))

Idle ==
  [op |-> "idle", table |-> <<>>, data |-> <<>>, keys |-> <<>>,
   progress |-> FALSE, delete |-> <<>>, keep |-> <<>>, failAt |-> 0,
   connectOk |-> TRUE, order |-> <<>>, requested |-> [none |-> TRUE, names |-> <<>>],
   outcome |-> "ok", result |-> <<>>,
   log |-> <<>>,
   pre |-> [db |-> EmptyDb, written |-> {}, conn |-> "none"]]

Snapshot == [db |-> db, written |-> written, conn |-> conn]

ConnectChoices == IF conn = "none" THEN BOOLEAN ELSE {TRUE}

CanCall == last.op = "idle" /\ ncalls < MaxCalls

(* postgres.py:49-100.  failAt: the statement the backend fails (0: none). *)
online_write_batch(table, data, progress, connectOk, failAt) ==
  LET c == _get_conn(conn, connectOk)
      tid == _table_id(project, table)
      batches == Batches(insert_values(data), ModelBatchSize)
      run == IF c.failed THEN [db |-> db, log |-> <<>>, failed |-> TRUE]
             ELSE batch_loop(Begin(txn, db), config, config.timezone, tid,
                             batches, 1, progress, failAt)
      failed == run.failed
      exit == IF c.failed THEN <<>>
              ELSE IF failed THEN <<Ev("rollback", 0, TRUE)>>
              ELSE <<Ev("commit", 0, TRUE)>>
  IN /\ failAt \in 0..Len(batches)
     /\ conn' = c.conn
     /\ nconn' = nconn + c.opened
     /\ db' = conn_exit(db, run.db, failed)
     /\ txn' = IF c.failed THEN txn ELSE txn_exit(run.db, failed)
     /\ written' = IF failed THEN written ELSE Remember(written, tid, data)
     /\ ncalls' = ncalls + 1
     /\ last' = [Idle EXCEPT !.op = "write", !.table = tid, !.data = data,
                             !.progress = progress, !.failAt = failAt,
                             !.connectOk = connectOk,
                             !.outcome = IF failed THEN "raised" ELSE "ok",
                             !.log = run.log \o exit, !.pre = Snapshot]
     /\ UNCHANGED <<config, nrows>>

----------------------------------------------------------------------------
(* update *)

TableSeqs ==
  { s \in UNION { [1..n -> Tables] : n \in 0..Cardinality(Tables) } :
      \A i, j \in 1..Len(s) : i # j => s[i] # s[j] }

Stmt(k, tid) == [kind |-> k, table |-> tid]

RECURSIVE DropStmts(_)
DropStmts(ts) ==
  IF ts = <<>> THEN <<>>
  ELSE <<Stmt("drop_table", _table_id(project, Head(ts)))>> \o DropStmts(Tail(ts))

RECURSIVE CreateStmts(_)
CreateStmts(ts) ==
  IF ts = <<>> THEN <<>>
  ELSE <<Stmt("create_table", _table_id(project, Head(ts))),
         Stmt("create_index", _table_id(project, Head(ts)))>>
       \o CreateStmts(Tail(ts))

(* postgres.py:165-215: the statements of an update call, in order *)
UpdateStatements(tables_to_delete, tables_to_keep) ==
  <<Stmt("create_schema", <<>>)>> \o DropStmts(tables_to_delete)
  \o CreateStmts(tables_to_keep) \o <<Stmt("commit", <<>>)>>

(* A mutant of DropTable: DROP TABLE without IF EXISTS *)
DropTableStrict(tx, cfg, tid) ==
  IF ~TableVisible(tx, cfg, tid) THEN [db |-> tx, failed |-> TRUE]
  ELSE [db |-> [tx EXCEPT !.exists = @ \ {tid}, !.indexes = @ \ {tid},
                          !.rows[tid] = {}],
        failed |-> FALSE]

(* postgres.py:179-185: DROP TABLE IF EXISTS *)
DropTable(tx, cfg, tid) ==
  [db |-> [tx EXCEPT !.exists = @ \ {tid}, !.indexes = @ \ {tid},
                     !.rows[tid] = {}],
   failed |-> FALSE]

(* postgres.py:188-202: CREATE TABLE IF NOT EXISTS *)
CreateTable(tx, cfg, tid) ==
  IF SearchPath(cfg) \notin tx.schemas THEN [db |-> tx, failed |-> TRUE]
  ELSE [db |-> [tx EXCEPT !.exists = @ \cup {tid}], failed |-> FALSE]

(* postgres.py:203-213: CREATE INDEX IF NOT EXISTS ... ON table *)
CreateIndex(tx, cfg, tid) ==
  IF ~TableVisible(tx, cfg, tid) THEN [db |-> tx, failed |-> TRUE]
  ELSE [db |-> [tx EXCEPT !.indexes = @ \cup {tid}], failed |-> FALSE]

(* postgres.py:165-176: CREATE SCHEMA IF NOT EXISTS [db_schema] AUTHORIZATION user *)
CreateSchema(tx, cfg) ==
  [db |-> [tx EXCEPT !.schemas = @ \cup {SearchPath(cfg)}], failed |-> FALSE]

execute(tx, cfg, st) ==
  CASE st.kind = "create_schema" -> CreateSchema(tx, cfg)
    [] st.kind = "drop_table" -> DropTable(tx, cfg, st.table)
    [] st.kind = "create_table" -> CreateTable(tx, cfg, st.table)
    [] st.kind = "create_index" -> CreateIndex(tx, cfg, st.table)
    [] OTHER -> [db |-> tx, failed |-> FALSE]

RECURSIVE run_statements(_, _, _, _, _)
run_statements(tx, cfg, stmts, i, failAt) ==
  IF i > Len(stmts) THEN [db |-> tx, log |-> <<>>, failed |-> FALSE]
  ELSE LET st == IF failAt = i THEN [db |-> tx, failed |-> TRUE]
                 ELSE execute(tx, cfg, stmts[i])
       IN IF st.failed
          THEN [db |-> tx, log |-> <<Ev(stmts[i].kind, i, FALSE)>>,
                failed |-> TRUE]
          ELSE LET rest == run_statements(st.db, cfg, stmts, i + 1, failAt)
               IN [db |-> rest.db,
                   log |-> <<Ev(stmts[i].kind, i, TRUE)>> \o rest.log,
                   failed |-> rest.failed]

SeqRange(s) == {s[i] : i \in 1..Len(s)}

(* postgres.py:152-215 *)
update(tables_to_delete, tables_to_keep, connectOk, failAt) ==
  LET c == _get_conn(conn, connectOk)
      stmts == UpdateStatements(tables_to_delete, tables_to_keep)
      run == IF c.failed THEN [db |-> db, log |-> <<>>, failed |-> TRUE]
             ELSE run_statements(Begin(txn, db), config, stmts, 1, failAt)
      exit == IF c.failed THEN <<>>
              ELSE IF run.failed THEN <<Ev("rollback", 0, TRUE)>> ELSE <<>>
      dropped == {_table_id(project, t) : t \in SeqRange(tables_to_delete)}
  IN /\ failAt \in 0..Len(stmts)
     /\ conn' = c.conn
     /\ nconn' = nconn + c.opened
     /\ db' = conn_exit(db, run.db, run.failed)
     /\ txn' = IF c.failed THEN txn ELSE txn_exit(run.db, run.failed)
     /\ written' = IF run.failed THEN written
                   ELSE {w \in written : w.table \notin dropped}
     /\ ncalls' = ncalls + 1
     /\ last' = [Idle EXCEPT !.op = "update", !.delete = tables_to_delete,
                             !.keep = tables_to_keep, !.failAt = failAt,
                             !.connectOk = connectOk,
                             !.outcome = IF run.failed THEN "raised" ELSE "ok",
                             !.log = run.log \o exit, !.pre = Snapshot]
     /\ UNCHANGED <<config, nrows>>

----------------------------------------------------------------------------
(* online_read *)

KeySeqs == UNION { [1..n -> Keys] : n \in 0..MaxKeys }

(* The orders in which the backend may return a set of rows *)
Orders(S) ==
  { o \in [1..Cardinality(S) -> S] :
      \A i, j \in 1..Cardinality(S) : i # j => o[i] # o[j] }

(* psycopg2 returns a BYTEA value as a memoryview over its bytes. *)
Memoryview(b) == [view |-> b]
tobytes(m) == m.view

(* postgres.py:122-123: the rows of the table the SELECT matches, as the
   cursor returns them: (entity_key, feature_name, value, event_ts) *)
Selected(tx, tid, keys) ==
  { r \in tx.rows[tid] : \E i \in 1..Len(keys) : r.entity_key = keys[i] }

Fetched(r, tz) ==
  <<Memoryview(r.entity_key), r.feature_name, Memoryview(r.value),
    FromTimestamptz(r.event_ts, tz)>>

(* postgres.py:134-136: values_dict[row[0].tobytes()].append(row[1:]) *)
RECURSIVE build_values_dict(_, _, _)
build_values_dict(fetched, i, values_dict) ==
  IF i > Len(fetched) THEN values_dict
  ELSE LET k == tobytes(fetched[i][1])
           rest == Tail(fetched[i])
       IN build_values_dict(fetched, i + 1,
            IF k \in DOMAIN values_dict
            THEN [values_dict EXCEPT ![k] = Append(@, rest)]
            ELSE values_dict @@ (k :> <<rest>>))

NonePair == [event_ts |-> NoneTs, none |-> TRUE, res |-> <<>>]

(* postgres.py:140-146: the pair emitted for a key with rows: res maps each
   feature name to the value of the last row that names it, and event_ts is
   the loop variable as the last row left it. *)
Emit(value) ==
  LET names == {value[j][1] : j \in 1..Len(value)}
      lastOf(f) == CHOOSE j \in 1..Len(value) :
                     /\ value[j][1] = f
                     /\ \A m \in 1..Len(value) : value[m][1] = f => m <= j
  IN [event_ts |-> value[Len(value)][3], none |-> FALSE,
      res |-> [f \in names |-> ParseFromString(tobytes(value[lastOf(f)][2]))]]

(* Mutants of result_loop: a key already seen is skipped; a key without rows
   is skipped; a key's rows are taken out of values_dict when they are used. *)
RECURSIVE result_loop_distinct(_, _, _)
result_loop_distinct(keys, i, values_dict) ==
  IF i > Len(keys) THEN <<>>
  ELSE (IF \E j \in 1..(i - 1) : keys[j] = keys[i] THEN <<>>
        ELSE <<IF keys[i] \in DOMAIN values_dict
               THEN Emit(values_dict[keys[i]]) ELSE NonePair>>)
       \o result_loop_distinct(keys, i + 1, values_dict)

RECURSIVE result_loop_skip_missing(_, _, _)
result_loop_skip_missing(keys, i, values_dict) ==
  IF i > Len(keys) THEN <<>>
  ELSE (IF keys[i] \in DOMAIN values_dict
        THEN <<Emit(values_dict[keys[i]])>> ELSE <<>>)
       \o result_loop_skip_missing(keys, i + 1, values_dict)

RECURSIVE result_loop_pop(_, _, _)
result_loop_pop(keys, i, values_dict) ==
  IF i > Len(keys) THEN <<>>
  ELSE <<IF keys[i] \in DOMAIN values_dict THEN Emit(values_dict[keys[i]])
         ELSE NonePair>>
       \o result_loop_pop(keys, i + 1,
             [k \in DOMAIN values_dict \ {keys[i]} |-> values_dict[k]])

(* postgres.py:138-148 *)
RECURSIVE result_loop(_, _, _)
result_loop(keys, i, values_dict) ==
  IF i > Len(keys) THEN <<>>
  ELSE <<IF keys[i] \in DOMAIN values_dict THEN Emit(values_dict[keys[i]])
         ELSE NonePair>>
       \o result_loop(keys, i + 1, values_dict)

(* postgres.py:115-117 *)
SerializedKeys(entity_keys) ==
  [i \in 1..Len(entity_keys) |-> serialize_entity_key(entity_keys[i])]

(* requested_features: None or a list of feature names (postgres.py:107) *)
NoFeatures == [none |-> TRUE, names |-> <<>>]
FeatureList(names) == [none |-> FALSE, names |-> names]

RequestedFeatures == {NoFeatures, FeatureList(<<>>), FeatureList(<<"f1">>)}

(* A mutant of read_result: the rows of the features that were not asked for
   are left out. *)
read_result_filtered(fetched, keys, requested_features) ==
  LET asked == {requested_features.names[i] :
                  i \in 1..Len(requested_features.names)}
      kept == SelectSeq(fetched,
                LAMBDA row : requested_features.none \/ row[2] \in asked)
  IN result_loop(keys, 1, build_values_dict(kept, 1, <<>>))

(* postgres.py:129-150: the result built from the fetched rows;
   requested_features is not read. *)
read_result(fetched, keys, requested_features) ==
  result_loop(keys, 1, build_values_dict(fetched, 1, <<>>))

(* postgres.py:102-150.  order: the order the backend returns the rows in;
   failAt = 1: the backend fails the SELECT. *)
online_read(table, entity_keys, requested_features, connectOk, failAt, order) ==
  LET c == _get_conn(conn, connectOk)
      tid == _table_id(project, table)
      keys == SerializedKeys(entity_keys)
      queried == ~c.failed
      view == Begin(txn, db)
      failed == c.failed \/ failAt = 1 \/ ~TableVisible(view, config, tid)
      rows == [i \in 1..Len(order) |-> Fetched(order[i], config.timezone)]
      result == IF failed THEN <<>>
                ELSE read_result(rows, keys, requested_features)
      exit == IF c.failed THEN <<>>
              ELSE IF failed THEN <<Ev("rollback", 0, TRUE)>>
              ELSE <<Ev("commit", 0, TRUE)>>
  IN /\ conn' = c.conn
     /\ nconn' = nconn + c.opened
     /\ db' = conn_exit(db, view, failed)
     /\ txn' = IF c.failed THEN txn ELSE txn_exit(view, failed)
     /\ ncalls' = ncalls + 1
     /\ last' = [Idle EXCEPT !.op = "read", !.table = tid,
                             !.keys = entity_keys, !.failAt = failAt,
                             !.connectOk = connectOk, !.order = order,
                             !.requested = requested_features,
                             !.outcome = IF failed THEN "raised" ELSE "ok",
                             !.result = result,
                             !.log = (IF queried
                                      THEN <<Ev("execute", 1, ~failed)>>
                                      ELSE <<>>) \o exit,
                             !.pre = Snapshot]
     /\ UNCHANGED <<config, written, nrows>>

----------------------------------------------------------------------------
(* teardown *)

(* A mutant of DropSchema: DROP SCHEMA without IF EXISTS *)
DropSchemaStrict(tx, cfg) ==
  IF user \notin tx.schemas THEN [db |-> tx, failed |-> TRUE]
  ELSE IF SearchPath(cfg) = user
       THEN [db |-> [EmptyDb EXCEPT !.schemas = tx.schemas \ {user}],
             failed |-> FALSE]
       ELSE [db |-> [tx EXCEPT !.schemas = @ \ {user}], failed |-> FALSE]

(* postgres.py:225-231: DROP SCHEMA IF EXISTS <user> CASCADE.  The tables of
   the model live in the search_path schema, so the cascade takes them when
   that schema is the user's. *)
DropSchema(tx, cfg) ==
  IF user \notin tx.schemas THEN [db |-> tx, failed |-> FALSE]
  ELSE IF SearchPath(cfg) = user
       THEN [db |-> [EmptyDb EXCEPT !.schemas = tx.schemas \ {user}],
             failed |-> FALSE]
       ELSE [db |-> [tx EXCEPT !.schemas = @ \ {user}], failed |-> FALSE]

(* A mutant of try_except: the exception of the block is not caught. *)
try_propagate(failed) ==
  [outcome |-> IF failed THEN "raised" ELSE "ok", log |-> <<>>]

(* postgres.py:223, 232-233: try: ... except Exception:
   logging.exception("Teardown failed") *)
try_except(failed) ==
  [outcome |-> "ok",
   log |-> IF failed THEN <<Ev("logging.exception", 0, TRUE)>> ELSE <<>>]

(* postgres.py:217-233.  failAt = 1: the backend fails the DROP SCHEMA;
   failAt = 2: it fails the commit at the exit of the with block. *)
teardown(connectOk, failAt) ==
  LET c == _get_conn(conn, connectOk)
      view == Begin(txn, db)
      st == IF c.failed \/ failAt = 1 THEN [db |-> view, failed |-> TRUE]
            ELSE DropSchema(view, config)
      failed == st.failed \/ failAt = 2
      tx == st.db
      body == IF c.failed THEN <<>>
              ELSE IF st.failed
                   THEN <<Ev("drop_schema", 1, FALSE), Ev("rollback", 0, TRUE)>>
              ELSE <<Ev("drop_schema", 1, TRUE), Ev("commit", 0, failAt = 0)>>
      caught == try_except(failed)
  IN /\ conn' = c.conn
     /\ nconn' = nconn + c.opened
     /\ db' = conn_exit(db, tx, failed)
     /\ txn' = IF c.failed THEN txn ELSE txn_exit(tx, failed)
     /\ written' = {w \in written : w.table \in db'.exists}
     /\ ncalls' = ncalls + 1
     /\ last' = [Idle EXCEPT !.op = "teardown", !.failAt = failAt,
                             !.connectOk = connectOk,
                             !.outcome = caught.outcome,
                             !.log = body \o caught.log, !.pre = Snapshot]
     /\ UNCHANGED <<config, nrows>>

----------------------------------------------------------------------------
(* The caller takes the result or the exception of the call that ended. *)
Return ==
  /\ last.op # "idle"
  /\ last' = Idle
  /\ UNCHANGED <<config, conn, nconn, db, written, ncalls, nrows, txn>>

Init ==
  /\ config \in Configs
  /\ conn = "none"
  /\ nconn = 0
  /\ db = EmptyDb
  /\ written = {}
  /\ ncalls = 0
  /\ nrows = 0
  /\ txn = NoTxn
  /\ last = Idle

WriteCall ==
  /\ CanCall
  /\ \E table \in Tables, data \in DataSeqs, progress \in BOOLEAN,
     connectOk \in ConnectChoices, failAt \in 0..(MaxData * Cardinality(Features)) :
       online_write_batch(table, data, progress, connectOk, failAt)

ReadCall ==
  /\ CanCall
  /\ \E table \in Tables, entity_keys \in KeySeqs,
        requested_features \in RequestedFeatures,
        connectOk \in ConnectChoices, failAt \in 0..1 :
       \E order \in Orders(Selected(Begin(txn, db), _table_id(project, table),
                                    SerializedKeys(entity_keys))) :
         online_read(table, entity_keys, requested_features, connectOk,
                     failAt, order)

TeardownCall ==
  /\ CanCall
  /\ \E connectOk \in ConnectChoices, failAt \in 0..2 :
       teardown(connectOk, failAt)

UpdateCall ==
  /\ CanCall
  /\ \E tables_to_delete \in TableSeqs, tables_to_keep \in TableSeqs,
     connectOk \in ConnectChoices, failAt \in 0..(3 * Cardinality(Tables) + 2) :
       update(tables_to_delete, tables_to_keep, connectOk, failAt)

Next == WriteCall \/ ReadCall \/ UpdateCall \/ TeardownCall \/ Return

Spec == Init /\ [][Next]_vars

----------------------------------------------------------------------------
(* online_write_batch by row count: the batch loop of a call whose records
   flatten to nrows distinct rows of an existing table, with the batch size
   of the code and a backend that fails nothing. *)

RowCounts ==
  { m * batch_size + d : m \in 0..MaxFullBatches, d \in {0, 1, 2001, 4999} }

RECURSIVE count_loop(_, _, _)
count_loop(lens, b, progress) ==
  IF b > Len(lens) THEN <<>>
  ELSE <<Ev("execute", b, TRUE)>>
       \o (IF progress THEN <<Ev("progress", lens[b], TRUE)>> ELSE <<>>)
       \o count_loop(lens, b + 1, progress)

write_rows(progress) ==
  /\ CanCall
  /\ ncalls = 0
  /\ conn' = "open"
  /\ nconn' = nconn + 1
  /\ ncalls' = ncalls + 1
  /\ last' = [Idle EXCEPT !.op = "write", !.progress = progress,
                          !.log = count_loop(BatchLens(nrows, batch_size), 1,
                                             progress)
                                  \o <<Ev("commit", 0, TRUE)>>,
                          !.pre = Snapshot]
  /\ UNCHANGED <<config, db, written, nrows, txn>>

InitRows ==
  /\ config \in Configs
  /\ conn = "none"
  /\ nconn = 0
  /\ db = EmptyDb
  /\ written = {}
  /\ ncalls = 0
  /\ nrows \in RowCounts
  /\ txn = NoTxn
  /\ last = Idle

WriteRowsCall == \E progress \in BOOLEAN : write_rows(progress)

NextRows == WriteRowsCall \/ Return

SpecRows == InitRows /\ [][NextRows]_vars

----------------------------------------------------------------------------
(* Properties *)

Ended(op) == last.op = op
Succeeded(op) == last.op = op /\ last.outcome = "ok"
Raised(op) == last.op = op /\ last.outcome = "raised"

(* The call got its connection and the backend failed none of its statements. *)
Connected == last.pre.conn = "open" \/ last.connectOk
NoBackendFailure == Connected /\ last.failAt = 0

LastRows == insert_values(last.data)
LastBatches == Batches(LastRows, ModelBatchSize)
Tz == config.timezone

(* The rows the table of the call holds, before and after it, for a key. *)
StoredFor(d, k) ==
  { r \in d.rows[last.table] : r.entity_key = serialize_entity_key(k) }

(* The cells of the call's table the caller has written for a key. *)
WrittenFor(k) ==
  { w \in written : w.table = last.table /\ w.entity_key = k }

(* The events of one kind in the log of the call, in order *)
RECURSIVE Only(_, _)
Only(log, e) ==
  IF log = <<>> THEN <<>>
  ELSE (IF Head(log).ev = e THEN <<Head(log)>> ELSE <<>>) \o Only(Tail(log), e)

RECURSIVE Sum(_)
Sum(s) == IF s = <<>> THEN 0 ELSE Head(s).arg + Sum(Tail(s))

(* The batch whose statement failed, 0 when none did *)
FailedBatch ==
  LET ex == Only(last.log, "execute")
  IN IF ex # <<>> /\ ~ex[Len(ex)].ok THEN ex[Len(ex)].arg ELSE 0

(* C1: after update has created T, write_batch(T, [(k1, {f1: v1}, ts1, None)])
   followed by read(T, [k1]) returns exactly [(ts1, {f1: v1})]; in general a
   read of a key returns, for every feature written for it, the value of the
   most recent write_batch that contained that key and feature. *)
C1_WriteReadRoundTrip ==
  Succeeded("read") =>
    \A i \in 1..Len(last.keys) :
      LET cells == WrittenFor(last.keys[i])
          got == last.result[i]
      IN /\ \A w \in cells :
              /\ ~got.none
              /\ w.feature_name \in DOMAIN got.res
              /\ got.res[w.feature_name] = w.value
         /\ \A w \in cells :
              cells = {w} =>
                /\ DOMAIN got.res = {w.feature_name}
                /\ DatetimeEq(got.event_ts, w.timestamp)

(* The value half of C1, which the code does keep: every feature written for
   a key reads back with the value of its most recent write. *)
ValueRoundTrip ==
  Succeeded("read") =>
    \A i \in 1..Len(last.keys) :
      \A w \in WrittenFor(last.keys[i]) :
        /\ ~last.result[i].none
        /\ w.feature_name \in DOMAIN last.result[i].res
        /\ last.result[i].res[w.feature_name] = w.value

(* C2: every table holds at most one row per (entity_key, feature_name), and
   after a write_batch the row of every (entity_key, feature_name) it wrote
   carries the value, event_ts and created_ts of the last record that named
   it, whether or not a row was there before. *)
C2_UpsertLastWriterWins ==
  /\ \A tid \in PhysTables :
       \A r1, r2 \in db.rows[tid] : PK(r1) = PK(r2) => r1 = r2
  /\ Succeeded("write") =>
       \A j \in 1..Len(LastRows) :
         (\A m \in (j + 1)..Len(LastRows) : PK(LastRows[m]) # PK(LastRows[j]))
           => /\ StoredRow(LastRows[j], Tz) \in db.rows[last.table]
              /\ Cardinality({ r \in db.rows[last.table] :
                                 PK(r) = PK(LastRows[j]) }) = 1

(* A write_batch has replaced a row whose value, event_ts and created_ts all
   differ from the new ones. *)
C2_Witness ==
  /\ Succeeded("write")
  /\ \E old \in last.pre.db.rows[last.table] :
       \E new \in db.rows[last.table] :
         /\ PK(old) = PK(new)
         /\ old.value # new.value
         /\ old.event_ts # new.event_ts
         /\ old.created_ts # new.created_ts

(* The pair a read owes a key, from the rows the table holds for it *)
OwedTo(k, got) ==
  LET rs == StoredFor(db, k)
  IN IF rs = {} THEN got = NonePair
     ELSE /\ ~got.none
          /\ DOMAIN got.res = {r.feature_name : r \in rs}
          /\ \A r \in rs :
               got.res[r.feature_name] = ParseFromString(r.value)
          /\ \E r \in rs : got.event_ts = FromTimestamptz(r.event_ts, Tz)

(* C3: for every sequence of requested keys, duplicates included, and every
   order in which the backend returns the rows, read returns a list as long as
   the key sequence whose i-th element is the result for the i-th key. *)
C3_OrderAndCardinality ==
  Succeeded("read") =>
    /\ Len(last.result) = Len(last.keys)
    /\ \A i \in 1..Len(last.keys) : OwedTo(last.keys[i], last.result[i])

(* Three keys with a duplicate were read, two of them with rows, and the
   backend returned the rows of the second key before those of the first. *)
C3_Witness ==
  /\ Succeeded("read")
  /\ Len(last.keys) = 3
  /\ last.keys[1] = last.keys[3]
  /\ last.keys[1] # last.keys[2]
  /\ StoredFor(db, last.keys[1]) # {}
  /\ StoredFor(db, last.keys[2]) # {}
  /\ last.order[1].entity_key = serialize_entity_key(last.keys[2])

(* C4, as stated: when the upsert of batch j (j > 1) fails, the rows of
   batches 1..j-1 of that call remain committed in the table after the call
   has raised, and batches after j are never attempted. *)
C4_EarlierBatchesCommitted ==
  (Raised("write") /\ FailedBatch > 1) =>
    /\ db.rows[last.table] =
         UpsertAll(last.pre.db.rows[last.table],
                   SubSeq(LastRows, 1, (FailedBatch - 1) * ModelBatchSize), Tz)
    /\ \A e \in SeqRange(Only(last.log, "execute")) : e.arg <= FailedBatch

(* C4, amended: a write_batch call is one transaction.  When the backend
   fails the upsert of batch j, the call raises, the database is left as it
   was before the call (no row of batches 1..j-1 stays), the progress callback
   has been invoked for batches 1..j-1 only and no batch after j is attempted. *)
C4_FailedWriteRollsBack ==
  /\ (Ended("write") /\ Connected /\ last.failAt >= 1) =>
       (last.outcome = "raised" /\ FailedBatch \in 1..last.failAt)
  /\ (Raised("write") /\ FailedBatch >= 1) =>
       /\ db = last.pre.db
       /\ Len(Only(last.log, "execute")) = FailedBatch
       /\ \A e \in SeqRange(Only(last.log, "execute")) : e.arg <= FailedBatch
       /\ Len(Only(last.log, "progress")) =
            (IF last.progress THEN FailedBatch - 1 ELSE 0)

(* The second batch of a write_batch failed after the first had upserted a
   row the table did not hold. *)
C4_Witness ==
  /\ Raised("write")
  /\ FailedBatch = 2
  /\ \E j \in 1..Len(LastBatches[1]) :
       StoredRow(LastBatches[1][j], Tz) \notin last.pre.db.rows[last.table]

(* C5: a requested key without a stored row gets exactly (None, None) at its
   position: the position is not left out, and the read does not raise. *)
C5_MissingKey ==
  (Ended("read") /\ NoBackendFailure
     /\ TableVisible(last.pre.db, config, last.table)) =>
    /\ last.outcome = "ok"
    /\ Len(last.result) = Len(last.keys)
    /\ \A i \in 1..Len(last.keys) :
         StoredFor(db, last.keys[i]) = {} => last.result[i] = NonePair

(* A read asked for an unknown key after a known one. *)
C5_Witness ==
  /\ Succeeded("read")
  /\ \E i, j \in 1..Len(last.keys) :
       /\ i < j
       /\ StoredFor(db, last.keys[i]) # {}
       /\ StoredFor(db, last.keys[j]) = {}
       /\ last.result[j] = NonePair

(* C6: the positions of one read that ask for the same key carry identical
   results, and a read issues exactly one backend query whatever the number
   of keys and duplicates. *)
C6_DuplicateKeys ==
  /\ Succeeded("read") =>
       \A i, j \in 1..Len(last.keys) :
         last.keys[i] = last.keys[j] => last.result[i] = last.result[j]
  /\ (Ended("read") /\ Connected) => Len(Only(last.log, "execute")) = 1

(* A read asked twice for a key that has two rows with different timestamps. *)
C6_Witness ==
  /\ Succeeded("read")
  /\ \E i, j \in 1..Len(last.keys) :
       /\ i # j
       /\ last.keys[i] = last.keys[j]
       /\ \E r1, r2 \in StoredFor(db, last.keys[i]) :
            r1.event_ts # r2.event_ts

Args(events) == [i \in 1..Len(events) |-> events[i].arg]

(* C7, as stated: ... and writing 12,001 rows invokes the callback exactly 3
   times with counts 5000, 5000, 1. *)
C7_Counts12001AsStated ==
  (Succeeded("write") /\ last.progress /\ nrows = 12001) =>
    Args(Only(last.log, "progress")) = <<5000, 5000, 1>>

(* C7, amended: a successful write_batch with a progress callback invokes it
   once per batch, in batch order, with the batch's row count: every count
   but the last is the batch size (5000), the last is between 1 and the batch
   size, and the counts sum to the number of rows; without a callback nothing
   is invoked.  12,001 rows give the counts 5000, 5000, 2001 (it is 10,001
   rows that give 5000, 5000, 1) and no rows give no call. *)
C7_BatchPartitioning ==
  Succeeded("write") =>
    LET counts == Args(Only(last.log, "progress"))
        n == Len(counts)
    IN IF ~last.progress THEN counts = <<>>
       ELSE /\ \A b \in 1..(n - 1) : counts[b] = batch_size
            /\ n > 0 => counts[n] \in 1..batch_size
            /\ Sum(Only(last.log, "progress")) = nrows
            /\ Len(Only(last.log, "execute")) = n
            /\ nrows = 12001 => counts = <<5000, 5000, 2001>>
            /\ nrows = 10001 => counts = <<5000, 5000, 1>>
            /\ nrows = 0 => counts = <<>>

(* 12,001 rows were written with a progress callback. *)
C7_Witness ==
  /\ Succeeded("write")
  /\ last.progress
  /\ nrows = 12001
  /\ Len(Only(last.log, "progress")) = 3

(* The writes explored row by row are batched the same way, with
   ModelBatchSize in place of batch_size. *)
BatchLensAgree ==
  Ended("write") =>
    /\ [b \in 1..Len(LastBatches) |-> Len(LastBatches[b])]
         = BatchLens(Len(LastRows), ModelBatchSize)
    /\ (Succeeded("write") /\ last.progress) =>
         Args(Only(last.log, "progress"))
           = BatchLens(Len(LastRows), ModelBatchSize)

(* C8: when a statement of an update call fails, the schemas, tables, indexes
   and rows are, after the call has raised, what they were before it. *)
C8_UpdateAllOrNothing ==
  /\ (Ended("update") /\ (~Connected \/ last.failAt >= 1)) =>
       last.outcome = "raised"
  /\ Raised("update") => db = last.pre.db

(* An update failed after it had dropped a table that held rows and created
   another one. *)
C8_Witness ==
  /\ Raised("update")
  /\ \E t \in SeqRange(last.delete) :
       /\ last.pre.db.rows[_table_id(project, t)] # {}
       /\ \E e \in SeqRange(last.log) : e.ev = "drop_table" /\ e.ok
  /\ \E t \in SeqRange(last.keep) :
       /\ _table_id(project, t) \notin last.pre.db.exists
       /\ \E e \in SeqRange(last.log) : e.ev = "create_table" /\ e.ok

(* C9, as stated: every write_batch and every read against a table that does
   not exist raises. *)
C9_MissingTableRaises ==
  ((Ended("write") \/ Ended("read"))
     /\ ~TableVisible(last.pre.db, config, last.table)) =>
    last.outcome = "raised"

(* C9, amended: every read, and every write_batch whose records carry at
   least one feature value, raises when the table does not exist; a
   write_batch with no row to write issues no statement and returns normally. *)
C9_MissingTableRaisesUnlessNoRows ==
  /\ (Ended("read") /\ ~TableVisible(last.pre.db, config, last.table)) =>
       last.outcome = "raised"
  /\ (Ended("write") /\ ~TableVisible(last.pre.db, config, last.table)) =>
       IF LastRows # <<>> THEN last.outcome = "raised" /\ db = last.pre.db
       ELSE Connected => last.outcome = "ok"

(* A write_batch with rows was refused, with the backend in order, because
   the schema was there and the table was not. *)
C9_Witness ==
  /\ Raised("write")
  /\ NoBackendFailure
  /\ LastRows # <<>>
  /\ SearchPath(config) \in db.schemas
  /\ last.table \notin db.exists

(* The tables that exist after the update call that ended is made once more *)
ExistsAfterRepeat ==
  LET again == run_statements(db, config,
                              UpdateStatements(last.delete, last.keep), 1, 0)
  IN IF again.failed THEN {<<"raised">>} ELSE again.db.exists

(* C10: an update with a table in tables_to_delete that does not exist
   succeeds, and making the same call again leaves the same set of tables. *)
C10_IdempotentDrop ==
  (Ended("update") /\ NoBackendFailure) =>
    /\ last.outcome = "ok"
    /\ ExistsAfterRepeat = db.exists
    /\ \A t \in SeqRange(last.delete) \ SeqRange(last.keep) :
         _table_id(project, t) \notin db.exists

(* An update was asked to drop a table that did not exist. *)
C10_Witness ==
  /\ Succeeded("update")
  /\ \E t \in SeqRange(last.delete) :
       _table_id(project, t) \notin last.pre.db.exists

(* C11: teardown never raises: whatever fails during it (opening the
   connection, the schema drop, the commit), the failure is caught and logged
   and teardown returns normally; write_batch, read and update propagate
   every failure to the caller. *)
Logged == Only(last.log, "logging.exception")

C11_TeardownNeverRaises ==
  /\ Ended("teardown") =>
       /\ last.outcome = "ok"
       /\ (~Connected \/ last.failAt # 0) <=> Len(Logged) = 1
       /\ Len(Logged) <= 1
  /\ \A op \in {"write", "read", "update"} :
       (Ended(op) /\ (~Connected \/ last.failAt # 0)) => Raised(op)

(* A teardown whose commit the backend failed returned normally and logged. *)
C11_Witness ==
  /\ Succeeded("teardown")
  /\ Connected
  /\ last.failAt = 2
  /\ Len(Logged) = 1

(* C12 as stated: teardown() called when the schema does not exist logs an
   error but does not raise. *)
MissingSchema ==
  user \notin last.pre.db.schemas /\ SearchPath(config) \notin last.pre.db.schemas

C12_MissingSchemaLogsError ==
  (Ended("teardown") /\ MissingSchema) =>
     /\ last.outcome = "ok"
     /\ Len(Logged) = 1

(* C12: teardown() called when the schema does not exist returns normally
   and, unless the connection or the backend failed, logs nothing and changes
   nothing: DROP SCHEMA IF EXISTS is no error for a schema that is not
   there. *)
C12_MissingSchemaIsNoError ==
  (Ended("teardown") /\ MissingSchema) =>
     /\ last.outcome = "ok"
     /\ NoBackendFailure =>
          /\ Logged = <<>>
          /\ last.log = <<Ev("drop_schema", 1, TRUE), Ev("commit", 0, TRUE)>>
          /\ db = last.pre.db

(* A teardown of a deployment whose schema an earlier teardown had dropped
   ran its statement, committed, and logged nothing. *)
C12_Witness ==
  /\ Succeeded("teardown")
  /\ MissingSchema
  /\ NoBackendFailure
  /\ last.pre.conn = "open"
  /\ Logged = <<>>

(* C13: over any sequence of write_batch, read, update and teardown calls on
   one adapter instance, a connection is opened on the first call that needs
   it, every later call reuses it, exactly one connection is ever opened per
   instance, and the adapter never closes it, also not after a failed
   operation. *)
C13_SingleLazyConnection ==
  /\ nconn <= 1
  /\ conn = "open" <=> nconn = 1
  /\ ncalls = 0 => conn = "none"
  /\ last.op # "idle" =>
       /\ last.pre.conn = "none" => (conn = "open" <=> last.connectOk)
       /\ last.pre.conn = "open" => conn = "open"

(* A call on the connection an earlier call had opened failed, and the
   connection is still the one open connection of the instance. *)
C13_Witness ==
  /\ last.op # "idle"
  /\ last.outcome = "raised"
  /\ last.pre.conn = "open"
  /\ ncalls = MaxCalls
  /\ conn = "open"
  /\ nconn = 1

(* C14: every event timestamp and every non-null created timestamp is
   normalized before storage: an aware timestamp becomes the naive wall clock
   of the same instant in UTC (10:00+02:00 becomes naive 08:00), a naive one
   is passed through unchanged, a null created timestamp stays null, and
   normalizing a normalized timestamp changes nothing. *)
UtcWall(ts) == ts.wall - ts.off

NormalizedFrom(given, row) ==
  /\ row.kind = "naive"
  /\ given.kind = "naive" => row = given
  /\ given.kind = "aware" => row.wall = UtcWall(given)
  /\ _to_naive_utc(row) = row

C14_TimestampNormalization ==
  /\ _to_naive_utc(Aware(10, 2)) = Naive(8)
  /\ Ended("write") =>
       \A i \in 1..Len(last.data) :
         LET rec == last.data[i]
             rows == RecordRows(rec)
         IN /\ Len(rows) = Cardinality(DOMAIN rec.values)
            /\ \A j \in 1..Len(rows) :
                 /\ NormalizedFrom(rec.timestamp, rows[j].event_ts)
                 /\ IF rec.created_ts = NoneTs
                    THEN rows[j].created_ts = NoneTs
                    ELSE NormalizedFrom(rec.created_ts, rows[j].created_ts)

(* A write stored a record with aware timestamps and one with a naive event
   timestamp and no created timestamp. *)
C14_Witness ==
  /\ Succeeded("write")
  /\ \E i, j \in 1..Len(last.data) :
       /\ last.data[i].timestamp.kind = "aware"
       /\ last.data[i].timestamp.off # 0
       /\ last.data[i].created_ts.kind = "aware"
       /\ DOMAIN last.data[i].values # {}
       /\ last.data[j].timestamp.kind = "naive"
       /\ last.data[j].created_ts = NoneTs
       /\ DOMAIN last.data[j].values # {}
  /\ \E r \in db.rows[last.table] : r.created_ts = SqlNull
  /\ \E r \in db.rows[last.table] : r.created_ts # SqlNull

(* C15: the requested_features filter is not applied: read returns the same
   result for every value of requested_features (None, empty, or a subset of
   the feature names), and the feature map of a present key holds every
   feature stored for that key. *)
LastFetched == [i \in 1..Len(last.order) |-> Fetched(last.order[i], Tz)]

C15_FilterNotApplied ==
  Succeeded("read") =>
    /\ \A rf \in RequestedFeatures :
         read_result(LastFetched, SerializedKeys(last.keys), rf) = last.result
    /\ \A i \in 1..Len(last.result) :
         ~last.result[i].none =>
            DOMAIN last.result[i].res
              = {r.feature_name : r \in StoredFor(last.pre.db, last.keys[i])}

(* A read that asked for f1 alone returned a key's f2 as well. *)
C15_Witness ==
  /\ Succeeded("read")
  /\ last.requested = FeatureList(<<"f1">>)
  /\ \E i \in 1..Len(last.result) :
       /\ ~last.result[i].none
       /\ DOMAIN last.result[i].res = {"f1", "f2"}

(* C16: for a requested key that has stored rows, the timestamp in the
   emitted pair is the latest event_ts among the rows stored for that key,
   whatever writes stored them and whatever order the backend returns the
   rows in. *)
LatestEventTs(rows) ==
  CHOOSE t \in {r.event_ts : r \in rows} :
    \A r \in rows : r.event_ts.instant <= t.instant

C16_LatestEventTs ==
  Succeeded("read") =>
    \A i \in 1..Len(last.result) :
      ~last.result[i].none =>
         DatetimeEq(last.result[i].event_ts,
                    FromTimestamptz(
                      LatestEventTs(StoredFor(last.pre.db, last.keys[i])), Tz))

(* C17: within one write_batch call the progress callback for batch i is
   invoked only after the upsert statement of batch i has completed and
   before the statement of batch i+1 is issued; it is never invoked for a
   batch whose statement failed or for any later batch, and never with a
   partial-batch count. *)
C17_ProgressOrdering ==
  (Ended("write") /\ Connected) =>
    LET log == last.log
        n == Len(log)
    IN /\ \A p \in 1..n :
            log[p].ev = "progress" =>
              /\ last.progress
              /\ p > 1
              /\ log[p - 1].ev = "execute"
              /\ log[p - 1].ok
              /\ log[p].arg = Len(LastBatches[log[p - 1].arg])
       /\ \A p \in 1..n :
            (log[p].ev = "execute" /\ log[p].ok /\ last.progress) =>
              /\ p < n
              /\ log[p + 1].ev = "progress"
       /\ \A p \in 1..n :
            (log[p].ev = "execute" /\ ~log[p].ok) =>
              \A q \in (p + 1)..n : log[q].ev \notin {"progress", "execute"}
       /\ \A k \in 1..Len(Only(log, "execute")) :
            Only(log, "execute")[k].arg = k

(* A write with a progress callback whose second batch failed: progress was
   reported for the first batch alone. *)
C17_Witness ==
  /\ Raised("write")
  /\ last.progress
  /\ FailedBatch = 2
  /\ last.log = <<Ev("execute", 1, TRUE), Ev("progress", ModelBatchSize, TRUE),
                  Ev("execute", 2, FALSE), Ev("rollback", 0, TRUE)>>

(* C18: for every configuration (a schema name configured that differs from
   the user name, or none configured), after update has created tables and a
   teardown with the same configuration has completed without internal
   failure, none of those physical tables exists any more, so a later read
   or non-empty write_batch against them fails. *)
C18_TeardownRemovesTables ==
  (Ended("teardown") /\ NoBackendFailure) =>
     /\ \A t \in last.pre.db.exists : ~TableVisible(db, config, t)
     /\ db.exists = {}

(* C19: write_batch on table T changes only the rows whose (entity_key,
   feature_name) occurs in its data: every other row of T (also a row of the
   same entity key for a feature absent from the new value map) and every
   other table is left unchanged, and no row is ever deleted by write_batch;
   read changes no stored row and no table; update leaves the rows of an
   already existing table in tables_to_keep unchanged unless that table is
   also in tables_to_delete. *)
LastPKs == {PK(LastRows[i]) : i \in 1..Len(LastRows)}
PhysOf(ts) == {_table_id(project, ts[i]) : i \in 1..Len(ts)}

C19_Frame ==
  /\ Ended("write") =>
       LET before == last.pre.db.rows[last.table]
           after == db.rows[last.table]
       IN /\ \A t \in PhysTables \ {last.table} :
               db.rows[t] = last.pre.db.rows[t]
          /\ db.exists = last.pre.db.exists
          /\ db.schemas = last.pre.db.schemas
          /\ db.indexes = last.pre.db.indexes
          /\ \A r \in before : PK(r) \notin LastPKs => r \in after
          /\ \A r \in before : \E r2 \in after : PK(r2) = PK(r)
          /\ \A r \in after : r \in before \/ PK(r) \in LastPKs
  /\ Ended("read") => db = last.pre.db
  /\ Ended("update") =>
       \A t \in PhysOf(last.keep) \ PhysOf(last.delete) :
         TableVisible(last.pre.db, config, t) =>
            /\ db.rows[t] = last.pre.db.rows[t]
            /\ t \in db.exists

(* A write of f1 for a key that had f1 and f2 stored changed the f1 row and
   left the f2 row as it was. *)
C19_Witness ==
  /\ Succeeded("write")
  /\ \E k \in Keys :
       LET ek == serialize_entity_key(k)
       IN /\ LastPKs = {<<ek, "f1">>}
          /\ \E r \in last.pre.db.rows[last.table] :
               /\ PK(r) = <<ek, "f2">>
               /\ r \in db.rows[last.table]
          /\ \E r \in last.pre.db.rows[last.table] :
               /\ PK(r) = <<ek, "f1">>
               /\ r \notin db.rows[last.table]

(* C20: every write_batch, read, update and teardown call ends with its
   transaction committed (normal return) or rolled back (failure), so each
   call starts with no pending uncommitted changes and a later successful
   call never commits effects an earlier failed call left behind. *)
Commits == Only(last.log, "commit")
Rollbacks == Only(last.log, "rollback")

C20_NoTransactionLeak ==
  /\ ~txn.open
  /\ (last.op # "idle" /\ Connected) =>
       /\ Len(Commits) + Len(Rollbacks) >= 1
       /\ (last.outcome = "ok" /\ Logged = <<>>) =>
            /\ Rollbacks = <<>>
            /\ \A i \in 1..Len(Commits) : Commits[i].ok
       /\ (last.outcome = "raised" \/ Logged # <<>>) =>
            /\ Rollbacks # <<>> \/ ~Commits[Len(Commits)].ok
            /\ db = last.pre.db
  /\ (last.op # "idle" /\ ~Connected) => db = last.pre.db
  /\ Succeeded("read") => db = last.pre.db
  /\ Succeeded("write") =>
       /\ \A t \in PhysTables \ {last.table} : db.rows[t] = last.pre.db.rows[t]
       /\ db.rows[last.table]
            = UpsertAll(last.pre.db.rows[last.table], LastRows, Tz)

(* A write on the connection an earlier write had committed on failed in its
   second batch: the call ended with a rollback, no transaction is open, and
   the table holds the committed rows of the earlier write alone. *)
C20_Witness ==
  /\ Raised("write")
  /\ last.pre.conn = "open"
  /\ last.pre.db.rows[last.table] # {}
  /\ last.log = <<Ev("execute", 1, TRUE), Ev("execute", 2, FALSE),
                  Ev("rollback", 0, TRUE)>>
  /\ \E j \in 1..Len(LastBatches[1]) :
       \A r \in last.pre.db.rows[last.table] : PK(r) # PK(LastBatches[1][j])
  /\ ~txn.open
  /\ db = last.pre.db

====
